---- MODULE Spec2Model ----
(***************************************************************************)
(* Model of scripts/download_models.py: the command-line entry point, the  *)
(* catalog filter of main() and the per-file existence/size check and      *)
(* fetch of download().  One run of the script is one behaviour.           *)
(***************************************************************************)
EXTENDS Integers, Sequences, FiniteSets, TLC

\* ------------------------------------------------------------------ bounds
\* Largest local file size and largest Content-Length / body length (bytes).
MaxSize == 2
\* Number of files of the first resource of a catalog (the others have one).
MaxFiles == 2
\* Shape of the catalogs of the filter specification.
NumRequired == 1
NumCheckpoints == 2
NumOptional == 1

\* ------------------------------------------------------------ resources
\* resources.ResourceKind; kinds main() does not test are folded into "other".
Kinds == <<"checkpoint", "controlnet", "upscaler", "preprocessor", "other">>
\* resources.SDVersion
Versions == <<"sd15", "sdxl", "all">>

\* A ModelResource: kind, sd_version, the catalog section it is listed in, and
\* the number of entries of its files mapping.  Resources are named by their
\* position in the catalog.
Resource(k, v, t, n) == [kind |-> k, sd_version |-> v, tag |-> t, nfiles |-> n]

\* The catalog with nr required resources, then nc default checkpoints, then
\* nopt optional ones; r rotates the (kind, sd_version) pairs over the positions,
\* so that every position takes every pair as r ranges over 0..14.
MakeCatalog(nr, nc, nopt, r) ==
  [i \in 1..(nr + nc + nopt) |->
     LET t == IF i <= nr THEN "required"
              ELSE IF i <= nr + nc THEN "checkpoint" ELSE "optional"
         k == IF t = "checkpoint" THEN "checkpoint"
              ELSE Kinds[((i + r) % Len(Kinds)) + 1]
         v == Versions[((i + r) % Len(Versions)) + 1]
     IN Resource(k, v, t, IF i = 1 THEN MaxFiles ELSE 1)]

RECURSIVE SelectIdx(_, _, _)
\* The positions i..Len(cat) of cat whose resource carries tag t, in order.
SelectIdx(cat, t, i) ==
  IF i > Len(cat) THEN <<>>
  ELSE (IF cat[i].tag = t THEN <<i>> ELSE <<>>) \o SelectIdx(cat, t, i + 1)

\* resources.required_models
resources_required_models(cat) == SelectIdx(cat, "required", 1)
\* resources.default_checkpoints
resources_default_checkpoints(cat) == SelectIdx(cat, "checkpoint", 1)
\* resources.all_models(): the whole catalog, in catalog order
all_models(cat) == [i \in 1..Len(cat) |-> i]

\* itertools.islice(s, n)
islice(s, n) == IF Len(s) <= n THEN s ELSE SubSeq(s, 1, n)

\* Variant of required_models() that takes two default checkpoints.
required_models_TwoCheckpoints(cat) ==
  resources_required_models(cat) \o islice(resources_default_checkpoints(cat), 2)

\* required_models(): chain(resources.required_models, islice(default_checkpoints, 1))
required_models(cat) ==
  resources_required_models(cat) \o islice(resources_default_checkpoints(cat), 1)

\* ------------------------------------------------------------------ flags
FlagNames == {"verbose", "dry_run", "no_sd15", "no_sdxl", "no_upscalers",
              "no_checkpoints", "no_controlnet", "prefetch", "minimal",
              "no_head_request"}
NoFlags == [n \in FlagNames |-> FALSE]

\* Variant of __main__ without "args.no_sdxl = args.no_sdxl or args.minimal".
ParseArgs_NoSdxlNotForced(a) == [a EXCEPT !.no_head_request = FALSE]

\* __main__: the keyword values main() receives from the parsed arguments.
\* args.no_sdxl is overwritten; no_head_request is not among the arguments of
\* the call, so main() sees its default, False.
ParseArgs(a) ==
  [a EXCEPT !.no_sdxl = a.no_sdxl \/ a.minimal,
            !.no_head_request = FALSE]

\* main(): verbose = verbose or dry_run
MainFlags(kw) == [kw EXCEPT !.verbose = kw.verbose \/ kw.dry_run]

\* main(): models = required_models() if minimal else all_models()
MainModels(cat, minimal) ==
  IF minimal THEN required_models(cat) ELSE all_models(cat)

\* Variant of the loop's condition that drops preprocessors when prefetch is on.
Excluded_PrefetchInverted(c, m) ==
  \/ c.no_sd15 /\ m.sd_version = "sd15"
  \/ c.no_sdxl /\ m.sd_version = "sdxl"
  \/ c.no_controlnet /\ m.kind = "controlnet"
  \/ c.no_upscalers /\ m.kind = "upscaler"
  \/ c.no_checkpoints /\ m.kind = "checkpoint"
  \/ c.prefetch /\ m.kind = "preprocessor"

\* main(): the condition of the loop's "continue"
Excluded(c, m) ==
  \/ c.no_sd15 /\ m.sd_version = "sd15"
  \/ c.no_sdxl /\ m.sd_version = "sdxl"
  \/ c.no_controlnet /\ m.kind = "controlnet"
  \/ c.no_upscalers /\ m.kind = "upscaler"
  \/ c.no_checkpoints /\ m.kind = "checkpoint"
  \/ ~c.prefetch /\ m.kind = "preprocessor"

\* ------------------------------------------------------- files and server
\* Destination files: <<resource, position in its files mapping>>.
FileIds(cat) ==
  {f \in (1..Len(cat)) \X (1..MaxFiles) : f[2] <= cat[f[1]].nfiles}

Local(d, e, s) == [dir |-> d, exists |-> e, size |-> s]
NoDir == Local(FALSE, FALSE, 0)
Absent == Local(TRUE, FALSE, 0)
LocalStates == {NoDir, Absent} \cup {Local(TRUE, TRUE, s) : s \in 0..MaxSize}

\* An optional header value: <<>> is "header absent", <<n>> is the value n.
Lengths == {<<>>} \cup {<<n>> : n \in 1..MaxSize}

Unused == [st |-> "unused"]
HeadOutcomes ==
  {[st |-> "ok", cl |-> c] : c \in Lengths} \cup
  {[st |-> "http_error"], [st |-> "timeout"], [st |-> "conn_error"]}
\* What a GET of a URL whose body is n bytes long may answer: the body with or
\* without its Content-Length, an error status, or no connection.
GetKinds == {"ok", "ok_no_length", "http_error", "conn_error"}
GetOutcome(kind, n) ==
  IF kind = "ok" THEN [st |-> "ok", cl |-> <<n>>, body |-> n]
  ELSE IF kind = "ok_no_length" THEN [st |-> "ok", cl |-> <<>>, body |-> n]
  ELSE [st |-> kind]
\* A server behaviour: the answer to a HEAD and the kind of answer to a GET.
Servers == [head : HeadOutcomes, get : GetKinds]

VARIABLES
  entry,          \* "cli": the script is run; "api": main() is called directly
  args,           \* the flags given (command line or keyword arguments)
  catalog,        \* the resource catalog
  net,            \* the behaviours the server may show for a URL
  remote,         \* the length of the body behind each file's URL
  fs,             \* the destination files
  cfg,            \* main()'s parameters after its first lines
  pc,             \* position of the run
  models,         \* main(): the models the loop has not reached yet
  passed,         \* the models main() has passed to download(), in order
  model,          \* download(): its model
  fileIdx,        \* download(): position in model.files
  target,         \* download(): target_file, the file of the current iteration
  server,         \* what the server answers for the current file's URL
  local0,         \* the current file as it was when its turn came
  compared_size,  \* download(): compared_size
  decision,       \* outcome for the current file: "none", "skip", "download"
  log,            \* lines printed for the current file
  reqs,           \* requests issued for the current file
  written,        \* bytes written to the current file
  err,            \* the exception that ended the run, or "none"
  open,           \* the requests whose response is open: <<method, file>>
  finished        \* how the earlier runs on this destination ended

vars == <<entry, args, catalog, net, remote, fs, cfg, pc, models, passed, model,
          fileIdx, target, server, local0, compared_size, decision, log, reqs,
          written, err, open, finished>>

cur == <<model, fileIdx>>

\* ------------------------------------------------------------------- Init
\* The state before the first line runs, for a given choice of the inputs.
InitWith(e, a, cat, n, len, files) ==
  /\ entry = e
  /\ args = a
  /\ catalog = cat
  /\ net = n
  /\ remote = [f \in FileIds(cat) |-> len]
  /\ fs = files
  /\ cfg = NoFlags
  /\ pc = "start"
  /\ models = <<>>
  /\ passed = <<>>
  /\ model = 0
  /\ fileIdx = 0
  /\ target = <<0, 0>>
  /\ server = [head |-> Unused, get |-> Unused]
  /\ local0 = NoDir
  /\ compared_size = FALSE
  /\ decision = "none"
  /\ log = <<>>
  /\ reqs = <<>>
  /\ written = 0
  /\ err = "none"
  /\ open = {}
  /\ finished = <<>>

Entries == {"cli", "api"}

\* Flag records in which only the flags of the set on take both values.
FlagsOver(on) ==
  {a \in [FlagNames -> BOOLEAN] : \A n \in FlagNames \ on : ~a[n]}

\* The runs made on one destination, the first included.
MaxRuns == 2

\* Inputs of the download specification: a catalog of three resources, the
\* first with MaxFiles files, the second a preprocessor (dropped, prefetch being
\* off); every state of the files of the first and of the third resource,
\* every server behaviour and body length, and the flags download() reads.
DownloadCatalog == MakeCatalog(1, 0, 2, 1)
DownloadFlags == FlagsOver({"verbose", "dry_run", "no_head_request"})
DownloadFiles ==
  {[f \in FileIds(DownloadCatalog) |->
      IF f[1] = 1 THEN x ELSE IF f[1] = 3 THEN y ELSE NoDir] :
     x \in LocalStates, y \in LocalStates}

Init ==
  \E e \in Entries, a \in DownloadFlags, files \in DownloadFiles,
     len \in 1..MaxSize :
    InitWith(e, a, DownloadCatalog, Servers, len, files)

\* Inputs of the filter specification: every combination of the flags main()
\* filters by, over catalogs in which every resource takes every (kind,
\* sd_version) pair; no destination file exists and the server is healthy.  A
\* few runs over existing files and every server behaviour are added.
FilterCatalogs ==
  {MakeCatalog(NumRequired, NumCheckpoints, NumOptional, r) :
     r \in 0..(Len(Kinds) * Len(Versions) - 1)}
FilterFlags ==
  FlagsOver({"no_sd15", "no_sdxl", "no_upscalers", "no_checkpoints",
             "no_controlnet", "prefetch", "minimal"})
Healthy == [head |-> [st |-> "ok", cl |-> <<1>>], get |-> "ok"]

InitFilter ==
  \/ \E e \in Entries, a \in FilterFlags, cat \in FilterCatalogs :
       InitWith(e, a, cat, {Healthy}, 1, [f \in FileIds(cat) |-> NoDir])
  \/ \E e \in Entries, a \in FlagsOver({"verbose", "no_head_request"}) :
       InitWith(e, a, DownloadCatalog, Servers, MaxSize,
                [f \in FileIds(DownloadCatalog) |-> Local(TRUE, TRUE, 1)])

\* ---------------------------------------------------------------- actions
\* __main__: parse the arguments, asyncio.run(main(...)); main() up to its loop.
CliMain ==
  /\ pc = "start" /\ entry = "cli"
  /\ cfg' = MainFlags(ParseArgs(args))
  /\ models' = MainModels(catalog, cfg'.minimal)
  /\ pc' = "main"
  /\ UNCHANGED <<finished, open, entry, args, catalog, net, remote, fs, passed, model, fileIdx, target, server,
                 local0, compared_size, decision, log, reqs, written, err>>

\* A direct call main(destination, **args); main() up to its loop.
CallMain ==
  /\ pc = "start" /\ entry = "api"
  /\ cfg' = MainFlags(args)
  /\ models' = MainModels(catalog, cfg'.minimal)
  /\ pc' = "main"
  /\ UNCHANGED <<finished, open, entry, args, catalog, net, remote, fs, passed, model, fileIdx, target, server,
                 local0, compared_size, decision, log, reqs, written, err>>

\* main(): a loop iteration that ends in "continue".
MainSkipModel ==
  /\ pc = "main" /\ models # <<>>
  /\ Excluded(cfg, catalog[Head(models)])
  /\ models' = Tail(models)
  /\ UNCHANGED <<finished, open, entry, args, catalog, net, remote, fs, cfg, pc, passed, model, fileIdx,
                 target, server, local0, compared_size, decision, log, reqs, written, err>>

\* main(): a loop iteration that calls download(client, model, ...).
MainDownload ==
  /\ pc = "main" /\ models # <<>>
  /\ ~Excluded(cfg, catalog[Head(models)])
  /\ models' = Tail(models)
  /\ passed' = Append(passed, Head(models))
  /\ model' = Head(models)
  /\ fileIdx' = 1
  /\ pc' = "file"
  /\ UNCHANGED <<finished, open, entry, args, catalog, net, remote, fs, cfg, target, server, local0,
                 compared_size, decision, log, reqs, written, err>>

\* main(): the loop is exhausted, the client is closed, main() returns.
MainDone ==
  /\ pc = "main" /\ models = <<>>
  /\ pc' = "done"
  /\ UNCHANGED <<finished, open, entry, args, catalog, net, remote, fs, cfg, models, passed, model,
                 fileIdx, target, server, local0, compared_size, decision, log, reqs,
                 written, err>>

\* download(): model.files is exhausted, download() returns.
DownloadReturn ==
  /\ pc = "file" /\ fileIdx > catalog[model].nfiles
  /\ pc' = "main"
  /\ UNCHANGED <<finished, open, entry, args, catalog, net, remote, fs, cfg, models, passed, model,
                 fileIdx, target, server, local0, compared_size, decision, log, reqs,
                 written, err>>

\* ------------------------------------------------------------- download()
\* Variant of is_size_equal() that compares with < instead of ==.
is_size_equal_AtMost(content_length, target_file) ==
  content_length[1] < target_file.size

\* is_size_equal(): int(content_length) == target_file.stat().st_size
is_size_equal(content_length, target_file) ==
  content_length[1] = target_file.size

\* is_size_equal(): what it prints
SizeLines(content_length, target_file, verbose) ==
  IF is_size_equal(content_length, target_file) THEN <<"matches_skipping">>
  ELSE IF verbose THEN <<"differs_downloading">> ELSE <<>>

\* Variant of the HEAD condition that does not test target_file.exists().
WantsHead_IgnoresExists(target_file, no_head_request) == ~no_head_request

\* download(): target_file.exists() and not no_head_request
WantsHead(target_file, no_head_request) ==
  target_file.exists /\ ~no_head_request

\* download(): the exceptions of head_client.head() / raise_for_status() that
\* the except clause names (ClientResponseError, ServerTimeoutError).
HeadCaughtErrors == {"http_error", "timeout"}

\* download(): "continue" - the loop moves to the next entry of model.files.
NextFile ==
  /\ decision' = "skip"
  /\ pc' = "file"
  /\ fileIdx' = fileIdx + 1
  /\ open' = open \ {<<"HEAD", target>>, <<"GET", target>>}

\* Variant of the GET that is issued inside the "async with" block of the
\* probe's client, while the probe is still open.
IssueGet_InsideProbe ==
  /\ pc' = "get"
  /\ reqs' = Append(reqs, "GET")
  /\ open' = open \cup {<<"GET", target>>}

\* download(): the "async with" block of the probe is left and client.get(url)
\* is issued.
IssueGet ==
  /\ pc' = "get"
  /\ reqs' = Append(reqs, "GET")
  /\ open' = (open \ {<<"HEAD", target>>}) \cup {<<"GET", target>>}

\* download(): the top of a loop iteration, up to the first request.  The
\* server's behaviour for the file's URL is fixed here.
LookForFile ==
  /\ pc = "file" /\ fileIdx <= catalog[model].nfiles
  /\ \E s \in net :
       server' = [head |-> IF WantsHead(fs[cur], cfg.no_head_request)
                             THEN s.head ELSE Unused,
                  get |-> GetOutcome(s.get, remote[cur])]
  /\ target' = cur
  /\ local0' = fs[cur]
  /\ compared_size' = FALSE
  /\ decision' = "none"
  /\ written' = 0
  /\ log' = IF cfg.verbose THEN <<"looking">> ELSE <<>>
  /\ IF WantsHead(fs[cur], cfg.no_head_request)
       THEN pc' = "head" /\ reqs' = <<"HEAD">> /\ open' = open \cup {<<"HEAD", cur>>}
       ELSE pc' = "get" /\ reqs' = <<"GET">> /\ open' = open \cup {<<"GET", cur>>}
  /\ UNCHANGED <<finished, entry, args, catalog, net, remote, fs, cfg, models, passed, model,
                 fileIdx, err>>

\* download(): the HEAD request fails with an exception the except clause does
\* not name (a connection failure): it leaves download() and main().
HeadRaises ==
  /\ pc = "head"
  /\ server.head.st \notin HeadCaughtErrors \cup {"ok"}
  /\ pc' = "error"
  /\ err' = "ClientConnectorError"
  /\ open' = open \ {<<"HEAD", target>>}
  /\ UNCHANGED <<finished, entry, args, catalog, net, remote, fs, cfg, models, passed, model,
                 fileIdx, target, server, local0, compared_size, decision, log, reqs,
                 written>>

\* download(): the except clause of the HEAD request, then the GET.
HeadCaught ==
  /\ pc = "head"
  /\ server.head.st \in HeadCaughtErrors
  /\ log' = IF cfg.verbose THEN Append(log, "head_failed") ELSE log
  /\ IssueGet
  /\ UNCHANGED <<finished, entry, args, catalog, net, remote, fs, cfg, models, passed, model,
                 fileIdx, target, server, local0, compared_size, decision, written, err>>

\* Variant of the else clause of the HEAD request that leaves compared_size
\* unset, so that the GET response's size is compared as well.
HeadOk_GetComparesAgain ==
  /\ pc = "head"
  /\ server.head.st = "ok"
  /\ LET content_length == server.head.cl IN
       IF content_length = <<>>
         THEN /\ IssueGet
              /\ UNCHANGED <<decision, log, fileIdx>>
         ELSE /\ log' = log \o SizeLines(content_length, fs[target], cfg.verbose)
              /\ IF is_size_equal(content_length, fs[target])
                   THEN NextFile /\ UNCHANGED reqs
                   ELSE IssueGet /\ UNCHANGED <<decision, fileIdx>>
  /\ UNCHANGED <<finished, entry, args, catalog, net, remote, fs, cfg, models, passed, model,
                 target, server, local0, compared_size, written, err>>

\* download(): the else clause of the HEAD request.
HeadOk ==
  /\ pc = "head"
  /\ server.head.st = "ok"
  /\ LET content_length == server.head.cl IN
       IF content_length = <<>>
         THEN /\ IssueGet
              /\ UNCHANGED <<compared_size, decision, log, fileIdx>>
         ELSE /\ compared_size' = TRUE
              /\ log' = log \o SizeLines(content_length, fs[target], cfg.verbose)
              /\ IF is_size_equal(content_length, fs[target])
                   THEN NextFile /\ UNCHANGED reqs
                   ELSE IssueGet /\ UNCHANGED <<decision, fileIdx>>
  /\ UNCHANGED <<finished, entry, args, catalog, net, remote, fs, cfg, models, passed, model,
                 target, server, local0, written, err>>

\* Variant of the GET's failure in which the destination is opened for writing
\* before the status is checked.
GetRaises_OpensFirst ==
  /\ pc = "get"
  /\ server.get.st # "ok"
  /\ pc' = "error"
  /\ err' = IF server.get.st = "http_error" THEN "ClientResponseError"
            ELSE "ClientConnectorError"
  /\ open' = open \ {<<"GET", target>>}
  /\ fs' = [fs EXCEPT ![target] = Local(TRUE, TRUE, 0)]
  /\ UNCHANGED <<finished, entry, args, catalog, net, remote, cfg, models, passed, model,
                 fileIdx, target, server, local0, compared_size, decision, log, reqs,
                 written>>

\* Variant of the GET's failure in which download() catches the exception and
\* goes on with the next entry of model.files.
GetRaises_Continues ==
  /\ pc = "get"
  /\ server.get.st # "ok"
  /\ pc' = "file"
  /\ fileIdx' = fileIdx + 1
  /\ open' = open \ {<<"GET", target>>}
  /\ UNCHANGED <<finished, entry, args, catalog, net, remote, fs, cfg, models, passed, model,
                 target, server, local0, compared_size, decision, log, reqs,
                 written, err>>

\* download(): resp.raise_for_status() of the GET raises, or the GET fails to
\* connect: the exception leaves download() and main().
GetRaises ==
  /\ pc = "get"
  /\ server.get.st # "ok"
  /\ pc' = "error"
  /\ err' = IF server.get.st = "http_error" THEN "ClientResponseError"
            ELSE "ClientConnectorError"
  /\ open' = open \ {<<"GET", target>>}
  /\ UNCHANGED <<finished, entry, args, catalog, net, remote, fs, cfg, models, passed, model,
                 fileIdx, target, server, local0, compared_size, decision, log, reqs,
                 written>>

\* Variant of the download branch that does not test dry_run.
StartDownload_IgnoresDryRun(lines) ==
  /\ log' = log \o lines \o <<"downloading">>
  /\ decision' = "download"
  /\ pc' = "write"
  /\ fs' = [fs EXCEPT ![target] = Local(TRUE, TRUE, 0)]
  /\ UNCHANGED <<fileIdx, err, open>>

\* download(): print("Downloading ..."), and unless dry_run, mkdir and
\* open(target_file, "wb"); with dry_run the iteration ends here.
StartDownload(lines) ==
  /\ log' = log \o lines \o <<"downloading">>
  /\ decision' = "download"
  /\ IF cfg.dry_run
       THEN /\ pc' = "file"
            /\ fileIdx' = fileIdx + 1
            /\ open' = open \ {<<"GET", target>>}
            /\ UNCHANGED fs
       ELSE /\ pc' = "write"
            /\ fs' = [fs EXCEPT ![target] = Local(TRUE, TRUE, 0)]
            /\ UNCHANGED <<fileIdx, open>>
  /\ UNCHANGED err

\* download(): the GET response has a success status.
GetOk ==
  /\ pc = "get"
  /\ server.get.st = "ok"
  /\ LET content_length == server.get.cl IN
       IF fs[target].exists /\ ~compared_size
         THEN IF cfg.verbose /\ content_length = <<>>
                THEN StartDownload(<<"no_content_length">>)
              ELSE IF content_length = <<>>
                \* is_size_equal(None, ...): int(None) raises TypeError
                THEN /\ pc' = "error"
                     /\ err' = "TypeError"
                     /\ open' = open \ {<<"GET", target>>}
                     /\ UNCHANGED <<fs, decision, log, fileIdx>>
              ELSE IF is_size_equal(content_length, fs[target])
                THEN /\ log' = log \o SizeLines(content_length, fs[target], cfg.verbose)
                     /\ NextFile
                     /\ UNCHANGED <<fs, err>>
              ELSE StartDownload(SizeLines(content_length, fs[target], cfg.verbose))
         ELSE StartDownload(<<>>)
  /\ UNCHANGED <<finished, entry, args, catalog, net, remote, cfg, models, passed, model, target, server,
                 local0, compared_size, reqs, written>>

\* download(): one iteration of "async for chunk": fd.write(chunk).
WriteChunk ==
  /\ pc = "write"
  /\ written < server.get.body
  /\ fs' = [fs EXCEPT ![target].size = @ + 1]
  /\ written' = written + 1
  /\ UNCHANGED <<finished, open, entry, args, catalog, net, remote, cfg, pc, models, passed, model,
                 fileIdx, target, server, local0, compared_size, decision, log, reqs, err>>

\* Variant of the end of the chunk loop that closes the file one chunk early.
WriteEnd_OneChunkShort ==
  /\ pc = "write"
  /\ written + 1 >= server.get.body
  /\ pc' = "file"
  /\ fileIdx' = fileIdx + 1
  /\ open' = open \ {<<"GET", target>>}
  /\ UNCHANGED <<finished, entry, args, catalog, net, remote, fs, cfg, models, passed, model,
                 target, server, local0, compared_size, decision, log, reqs, written, err>>

\* download(): the body is exhausted; the file and the response are closed.
WriteEnd ==
  /\ pc = "write"
  /\ written = server.get.body
  /\ pc' = "file"
  /\ fileIdx' = fileIdx + 1
  /\ open' = open \ {<<"GET", target>>}
  /\ UNCHANGED <<finished, entry, args, catalog, net, remote, fs, cfg, models, passed, model,
                 target, server, local0, compared_size, decision, log, reqs, written, err>>

\* download(): the transfer ends before the body is exhausted: the chunk loop
\* raises (the connection is lost) or the process is interrupted.  The file
\* stays as far as it was written.
TransferCut ==
  /\ pc = "write"
  /\ written < server.get.body
  /\ pc' = "error"
  /\ \E e \in {"ClientPayloadError", "KeyboardInterrupt"} : err' = e
  /\ open' = open \ {<<"GET", target>>}
  /\ UNCHANGED <<finished, entry, args, catalog, net, remote, fs, cfg, models, passed,
                 model, fileIdx, target, server, local0, compared_size, decision,
                 log, reqs, written>>

\* The file the run that just ended left partially written, <<0, 0>> if none.
LeftPartial ==
  IF pc = "error" /\ decision = "download" /\ written < server.get.body
    THEN target ELSE <<0, 0>>

\* __main__: the script (or main()) is run again with the same arguments on the
\* same destination, after a run that returned or raised.
RunAgain ==
  /\ pc \in {"done", "error"}
  /\ Len(finished) + 1 < MaxRuns
  /\ finished' = Append(finished, [end |-> pc, dry_run |-> cfg.dry_run,
                                    partial |-> LeftPartial])
  /\ pc' = "start"
  /\ cfg' = NoFlags
  /\ models' = <<>>
  /\ passed' = <<>>
  /\ model' = 0
  /\ fileIdx' = 0
  /\ target' = <<0, 0>>
  /\ server' = [head |-> Unused, get |-> Unused]
  /\ local0' = NoDir
  /\ compared_size' = FALSE
  /\ decision' = "none"
  /\ log' = <<>>
  /\ reqs' = <<>>
  /\ written' = 0
  /\ err' = "none"
  /\ UNCHANGED <<open, entry, args, catalog, net, remote, fs>>

\* ---------------------------------------------------------- specifications
Next ==
  \/ CliMain
  \/ CallMain
  \/ MainSkipModel
  \/ MainDownload
  \/ MainDone
  \/ DownloadReturn
  \/ LookForFile
  \/ HeadRaises
  \/ HeadCaught
  \/ HeadOk
  \/ GetRaises
  \/ GetOk
  \/ WriteChunk
  \/ WriteEnd

\* Runs over the inputs of download().
Spec == Init /\ [][Next]_vars

\* Runs over the inputs of main()'s filter.
SpecFilter == InitFilter /\ [][Next]_vars

\* The behaviours of a server whose HEAD responses, when they declare a size,
\* declare the length of the body it serves.
ConsistentServers(len) ==
  {s \in Servers : s.head.st = "ok" => s.head.cl \in {<<>>, <<len>>}}

\* Inputs of the rerun specification: the download catalog with every file in
\* the same state, the flags that decide what download() requests and writes,
\* every length of the bodies.
RerunFlags == FlagsOver({"dry_run", "no_head_request"})

InitRerun ==
  \E e \in Entries, a \in RerunFlags, x \in LocalStates, len \in 1..MaxSize :
    InitWith(e, a, DownloadCatalog, ConsistentServers(len), len,
             [f \in FileIds(DownloadCatalog) |-> IF f[1] = 2 THEN NoDir ELSE x])

NextRerun ==
  \/ Next
  \/ TransferCut
  \/ RunAgain

\* Repeated runs on one destination, against a server that keeps the length of
\* its bodies; a run may be cut while a file is written.
SpecRerun == InitRerun /\ [][NextRerun]_vars

\* ================================================================= claims
\* The current file's turn is over: a request was issued for it and none is
\* in flight or being written (it was skipped, fetched, or the run ended).
Settled == reqs # <<>> /\ pc \notin {"head", "get", "write"}

Lines == {log[i] : i \in 1..Len(log)}
Requests == {reqs[i] : i \in 1..Len(reqs)}

\* The file was present when its turn came.
Existed == local0.exists

\* The HEAD probe is enabled for the current file and answers with a size.
HeadHasSize ==
  /\ WantsHead(local0, cfg.no_head_request)
  /\ server.head.st = "ok"
  /\ server.head.cl # <<>>

\* The size the server declares for the current file: the one of the HEAD
\* probe when it succeeds and carries a size, otherwise the one of a successful
\* GET response (probe failed, without size header, or disabled); <<>> if none.
DeclaredSize ==
  IF HeadHasSize THEN server.head.cl
  ELSE IF server.get.st = "ok" THEN server.get.cl
  ELSE <<>>

\* The current file was opened for writing, truncated and filled with the
\* whole body of the GET response.
Rewritten ==
  /\ decision = "download"
  /\ written = server.get.body
  /\ fs[target] = Local(TRUE, TRUE, server.get.body)

\* The current file is as it was when its turn came, and nothing was written.
Untouched == fs[target] = local0 /\ written = 0

\* C1: a destination file that exists with the size the server declares (HEAD
\* when it succeeds with a size, otherwise the GET response) is reported
\* "skip" and is never opened, truncated or written, whatever the flags.
C1_EqualSizeIsSkipped ==
  (Settled /\ Existed /\ DeclaredSize = <<local0.size>>)
    => (decision = "skip" /\ "matches_skipping" \in Lines /\ Untouched)

\* C2: a destination file that exists with a size other than the declared one
\* gets a GET, and with a successful GET and dry-run off it is truncated and
\* rewritten from the response body.
C2_DifferentSizeIsRewritten ==
  (Settled /\ Existed /\ DeclaredSize # <<>> /\ DeclaredSize # <<local0.size>>)
    => /\ "GET" \in Requests
       /\ (server.get.st = "ok" /\ ~cfg.dry_run) => Rewritten

\* C3: for an existing file, when neither the HEAD probe (failed, no header,
\* disabled) nor the GET response carries a Content-Length, no error is raised
\* and the file is downloaded and overwritten, verbose or not.  Stated for the
\* files whose GET response was received.
C3_NoSizeAlwaysDownloads ==
  (Settled /\ Existed /\ ~HeadHasSize /\ "GET" \in Requests
     /\ server.get.st = "ok" /\ server.get.cl = <<>>)
    => /\ err = "none"
       /\ decision = "download"
       /\ ~cfg.dry_run => Rewritten

\* C4: a HEAD probe that fails (timeout, error status, connection failure)
\* never ends the run: a GET for the same file follows, and the failure is
\* logged exactly when verbose.
C4_HeadFailureFallsBackToGet ==
  (reqs # <<>> /\ Head(reqs) = "HEAD" /\ pc # "head" /\ server.head.st # "ok")
    => /\ Len(reqs) >= 2 /\ reqs[2] = "GET"
       /\ ("head_failed" \in Lines) <=> cfg.verbose

\* C5: with --no-head-request given on the command line, or no_head_request
\* passed directly, no HEAD probe is issued for any file; every processed file
\* gets a GET.
C5_NoHeadRequestMeansNoHead ==
  (args.no_head_request /\ reqs # <<>>) => reqs = <<"GET">>

\* The line that announces the decision taken for the current file.
DecisionLogged ==
  /\ decision = "skip" => "matches_skipping" \in Lines
  /\ decision = "download" =>
       /\ "downloading" \in Lines
       /\ Existed => \/ "differs_downloading" \in Lines
                     \/ "no_content_length" \in Lines

\* C6: in dry-run mode nothing is ever written and no file or directory is
\* created, whatever the files, the server's answers and the other flags; the
\* check still runs (a HEAD and/or a GET is issued for every file reached) and
\* the decision is logged, dry_run forcing verbose on.
C6_DryRunWritesNothing ==
  /\ [][args.dry_run => fs' = fs]_vars
  /\ []((args.dry_run /\ pc # "start") =>
          /\ cfg.verbose
          /\ pc # "write" /\ written = 0
          /\ target # <<0, 0>> => (reqs # <<>> /\ "looking" \in Lines)
          /\ decision # "none" => DecisionLogged)

\* C6 witness: a dry run decided to download a file that did not exist, got a
\* successful GET response, and created neither the file nor its directory.
C6_Witness ==
  /\ args.dry_run /\ decision = "download" /\ pc = "file"
  /\ server.get.st = "ok" /\ local0 = NoDir /\ fs[target] = NoDir

\* C10 as stated: a file that does not exist gets no HEAD probe and no size
\* comparison; a GET is issued and its download is announced (and, with a
\* successful GET outside dry-run, it is created with its parent directories).
C10_AbsentFileAlwaysAnnounced ==
  (Settled /\ ~Existed) =>
    /\ reqs = <<"GET">>
    /\ ~compared_size
    /\ Lines \cap {"matches_skipping", "differs_downloading", "no_content_length"} = {}
    /\ "downloading" \in Lines
    /\ (server.get.st = "ok" /\ ~cfg.dry_run) => Rewritten

\* C10 amended: as above, the download being announced when the GET succeeds
\* (a failed GET raises before anything is announced).
C10_AbsentFileDownloaded ==
  (Settled /\ ~Existed) =>
    /\ reqs = <<"GET">>
    /\ ~compared_size
    /\ Lines \cap {"matches_skipping", "differs_downloading", "no_content_length"} = {}
    /\ server.get.st = "ok" =>
         /\ decision = "download" /\ "downloading" \in Lines /\ err = "none"
         /\ ~cfg.dry_run => Rewritten
         /\ cfg.dry_run => Untouched
    /\ server.get.st # "ok" => (pc = "error" /\ Untouched)

\* C10 witness: a missing file in a missing directory was fetched and created.
C10_Witness ==
  /\ Settled /\ local0 = NoDir /\ ~cfg.dry_run /\ ~cfg.no_head_request
  /\ server.get.st = "ok" /\ server.get.body = MaxSize
  /\ fs[target] = Local(TRUE, TRUE, MaxSize)

\* ------------------------------------------------------------- the filter
\* The flags as the claims read them: a resource is excluded when its family
\* matches a set family flag, its kind matches a set kind flag, or it is a
\* preprocessor while prefetch is off.
FlagExcludes(a, m) ==
  \/ \E v \in {"sd15", "sdxl"} : a["no_" \o v] /\ m.sd_version = v
  \/ /\ m.kind \in {"controlnet", "upscaler", "checkpoint"}
     /\ a[IF m.kind = "controlnet" THEN "no_controlnet"
          ELSE IF m.kind = "upscaler" THEN "no_upscalers" ELSE "no_checkpoints"]
  \/ m.kind = "preprocessor" /\ ~a.prefetch

RECURSIVE Keep(_, _, _)
\* The subsequence of the resources s that the flags a do not exclude.
Keep(s, a, cat) ==
  IF s = <<>> THEN <<>>
  ELSE (IF FlagExcludes(a, cat[Head(s)]) THEN <<>> ELSE <<Head(s)>>)
       \o Keep(Tail(s), a, cat)

IsPrefix(s, t) == Len(s) <= Len(t) /\ s = SubSeq(t, 1, Len(s))
Range(s) == {s[i] : i \in 1..Len(s)}

\* C7: for every combination of no_sd15, no_sdxl, no_controlnet, no_upscalers,
\* no_checkpoints and prefetch, the sequence main() passes to download() holds
\* no excluded resource, and every other resource of the catalog exactly once,
\* in catalog order (all of them once the run has completed).
C7_FilterKeepsCatalogOrder ==
  /\ \A i \in 1..Len(passed) : ~FlagExcludes(args, catalog[passed[i]])
  /\ \A i, j \in 1..Len(passed) : i < j => passed[i] < passed[j]
  /\ ~args.minimal =>
       /\ IsPrefix(passed, Keep(all_models(catalog), args, catalog))
       /\ pc = "done" => passed = Keep(all_models(catalog), args, catalog)

\* C7 witness: a completed run that dropped the first and the last resource of
\* the catalog and passed the two between them.
C7_Witness ==
  /\ pc = "done" /\ ~args.minimal /\ Len(catalog) >= 4
  /\ passed = <<2, 3>>

\* C8: in a minimal run of the script the SDXL exclusion is in force whatever
\* --no-sdxl was: no SDXL resource is ever passed to download().
C8_MinimalForcesNoSdxl ==
  (entry = "cli" /\ args.minimal) =>
    /\ pc # "start" => cfg.no_sdxl
    /\ \A i \in 1..Len(passed) : catalog[passed[i]].sd_version # "sdxl"

\* C8 witness: a completed minimal run without --no-sdxl whose source set held
\* an SDXL resource, and which passed another resource.
C8_Witness ==
  /\ entry = "cli" /\ args.minimal /\ ~args.no_sdxl /\ pc = "done"
  /\ passed # <<>>
  /\ \E i \in Range(required_models(catalog)) : catalog[i].sd_version = "sdxl"

\* The flags main() filters by when the run is started with the flags a.
Effective(e, a) == IF e = "cli" THEN MainFlags(ParseArgs(a)) ELSE MainFlags(a)

\* What a completed run started with the flags a passes to download().
Processed(e, a, cat) ==
  LET c == Effective(e, a) IN Keep(MainModels(cat, c.minimal), c, cat)

\* C9 as stated: the resources processed with minimal=true are a strict subset
\* of those processed with minimal=false and otherwise identical flags.
C9_MinimalIsStrictSubset ==
  (pc = "done" /\ args.minimal) =>
    LET full == Range(Processed(entry, [args EXCEPT !.minimal = FALSE], catalog))
    IN Range(passed) \subseteq full /\ Range(passed) # full

\* C9 amended: the resources processed with minimal=true are a subset, not
\* always a strict one, of those processed with minimal=false and otherwise
\* identical flags; they are the resources the flags keep of all required
\* resources followed by the first default checkpoint alone.
C9_MinimalIsSubset ==
  (pc = "done" /\ args.minimal) =>
    /\ Range(passed) \subseteq
         Range(Processed(entry, [args EXCEPT !.minimal = FALSE], catalog))
    /\ passed = Keep(resources_required_models(catalog)
                       \o SubSeq(resources_default_checkpoints(catalog), 1, 1),
                     cfg, catalog)

\* C9 witness: a completed minimal run that passed a required resource and the
\* first default checkpoint, the catalog holding a second default checkpoint.
C9_Witness ==
  /\ pc = "done" /\ args.minimal
  /\ Len(resources_default_checkpoints(catalog)) >= 2
  /\ passed = <<1, resources_default_checkpoints(catalog)[1]>>

\* ------------------------------------------------------ C11 .. C17
\* C11: a file that exists, whose HEAD probe succeeds with a Content-Length
\* equal to its size, is skipped with the line "Found - Local file size matches
\* server's - skipping", and no GET is ever issued for it.
C11_HeadMatchSkipsWithoutGet ==
  (reqs # <<>> /\ pc # "head" /\ Existed /\ HeadHasSize
     /\ server.head.cl = <<local0.size>>)
    => /\ decision = "skip"
       /\ "matches_skipping" \in Lines
       /\ reqs = <<"HEAD">>
       /\ Untouched
       /\ pc \in {"file", "main", "done"}

\* C11 witness: the last file of the run was skipped on its HEAD probe, the
\* GET of its URL being one that would have failed.
C11_Witness ==
  /\ pc = "done" /\ decision = "skip" /\ reqs = <<"HEAD">>
  /\ local0 = Local(TRUE, TRUE, MaxSize) /\ server.head.cl = <<MaxSize>>
  /\ server.get.st = "http_error"

\* The GET issued for the current file has failed.
GetFailed == "GET" \in Requests /\ pc # "get" /\ server.get.st # "ok"

\* C12: once the GET of a file fails (error status or connection failure) the
\* error leaves the run: the GET is not retried, and nothing is requested or
\* written afterwards, for later files of the resource or later resources.
C12_GetFailureEndsTheRun ==
  /\ [](GetFailed =>
          /\ pc = "error"
          /\ err \in {"ClientResponseError", "ClientConnectorError"}
          /\ Len(SelectSeq(reqs, LAMBDA r : r = "GET")) = 1
          /\ Untouched)
  /\ [][pc = "error" => (pc' = "error" /\ fs' = fs /\ reqs' = reqs
                           /\ target' = target /\ passed' = passed)]_vars

\* C12 witness: the GET of the first file of the first resource failed, with a
\* later file of that resource and later resources still to come.
C12_Witness ==
  /\ GetFailed /\ pc = "error" /\ target = <<1, 1>>
  /\ catalog[1].nfiles > 1 /\ models # <<>>

\* The HEAD probe and the GET response of the current, existing file declare
\* different sizes.
SizesDisagree ==
  /\ Existed /\ HeadHasSize
  /\ server.get.st = "ok" /\ server.get.cl # <<>>
  /\ server.get.cl # server.head.cl

\* C14 as stated: when the sizes declared by HEAD and GET differ for an
\* existing file, the GET response decides: the file is skipped exactly when
\* the GET's Content-Length equals its size, and downloaded otherwise.
C14_GetSizeDecides ==
  (Settled /\ SizesDisagree)
    => /\ decision = (IF server.get.cl = <<local0.size>> THEN "skip" ELSE "download")
       /\ decision = "skip" => Untouched

\* C14 amended: when the sizes declared by HEAD and GET differ for an existing
\* file, the HEAD probe decides: the file is skipped without any GET exactly
\* when the HEAD's Content-Length equals its size; otherwise the GET is issued,
\* its Content-Length is not compared, and the file is downloaded (outside
\* dry-run rewritten), even when the GET's Content-Length equals its size.
C14_HeadSizeDecides ==
  (Settled /\ SizesDisagree)
    => IF server.head.cl = <<local0.size>>
         THEN decision = "skip" /\ reqs = <<"HEAD">> /\ Untouched
         ELSE /\ decision = "download" /\ reqs = <<"HEAD", "GET">>
              /\ "matches_skipping" \notin Lines
              /\ IF cfg.dry_run THEN Untouched ELSE Rewritten

\* C14 witness: the file has the size of the GET response, not the one of the
\* HEAD probe, and was rewritten.
C14_Witness ==
  /\ Settled /\ SizesDisagree
  /\ server.get.cl = <<local0.size>>
  /\ decision = "download" /\ Rewritten

\* C15: a GET that fails with an error status leaves the file system as it was
\* for that file: nothing is opened, truncated or created, and the run ends.
C15_FailedGetLeavesFileAlone ==
  ("GET" \in Requests /\ pc # "get" /\ server.get.st = "http_error")
    => /\ pc = "error" /\ err = "ClientResponseError"
       /\ Untouched
       /\ decision = "none" /\ "downloading" \notin Lines

\* C15 witness: the GET of an existing file whose size differs from the
\* probe's failed with an error status.
C15_Witness ==
  /\ pc = "error" /\ err = "ClientResponseError"
  /\ reqs = <<"HEAD", "GET">>
  /\ local0 = Local(TRUE, TRUE, 1)
  /\ server.head.st = "ok" /\ server.head.cl = <<MaxSize>>
  /\ fs[target] = local0

\* The requests that are open while the run is at pc.
OpenAt ==
  IF pc = "head" THEN {<<"HEAD", target>>}
  ELSE IF pc \in {"get", "write"} THEN {<<"GET", target>>}
  ELSE {}

\* At most one request is open, a file's probe is closed before its GET is
\* issued, and nothing is open between two files.
OneRequestAtATime ==
  /\ Cardinality(open) <= 1
  /\ open = OpenAt
  /\ "GET" \in Requests => <<"HEAD", target>> \notin open

\* A first request is issued for the next file.
NextFileRequested == pc = "file" /\ pc' \in {"head", "get"}

\* The current file was written completely.
CompletelyWritten ==
  /\ decision = "download"
  /\ written = server.get.body
  /\ fs[target].exists /\ fs[target].size = server.get.body

\* C13 as stated: at most one request (HEAD or GET) is open at any point; a
\* file's HEAD probe is completed and closed before the file's GET is issued;
\* no request is issued for the next file until the current one was either
\* skipped or completely written.
C13_StrictlySequential ==
  /\ []OneRequestAtATime
  /\ [][NextFileRequested =>
          (reqs = <<>> \/ decision = "skip" \/ CompletelyWritten)]_vars

\* C13 amended: as C13, the current file's turn being over also when, with
\* dry_run, its download was announced and nothing written.
C13_SequentialTurns ==
  /\ []OneRequestAtATime
  /\ [][NextFileRequested =>
          /\ open = {}
          /\ \/ reqs = <<>>
             \/ decision = "skip"
             \/ CompletelyWritten
             \/ cfg.dry_run /\ decision = "download" /\ Untouched]_vars

\* C13 witness: the GET of the second file of a resource is open, after that
\* file's probe and after the first file was written.
C13_Witness ==
  /\ pc = "write" /\ reqs = <<"HEAD", "GET">> /\ target = <<1, 2>>
  /\ open = {<<"GET", target>>}
  /\ fs[<<1, 1>>] = Local(TRUE, TRUE, remote[<<1, 1>>])

\* The run before this one returned without error and was not a dry run.
AfterCompleteRun ==
  /\ finished # <<>>
  /\ finished[Len(finished)].end = "done"
  /\ ~finished[Len(finished)].dry_run

\* The server answers for the current file as an unchanged, healthy server:
\* the probe (when made) and the GET declare the length of the body.
ServerUnchanged ==
  /\ WantsHead(local0, cfg.no_head_request)
       => (server.head.st = "ok" /\ server.head.cl = <<remote[target]>>)
  /\ server.get.st = "ok" /\ server.get.cl = <<remote[target]>>

\* C16 as stated: after a run that completed without error and without dry-run,
\* a second run with the same flags against the unchanged server skips every
\* file and performs no write and no GET request.
C16_SecondRunNoGet ==
  (AfterCompleteRun /\ Settled /\ ServerUnchanged)
    => (decision = "skip" /\ Untouched /\ "GET" \notin Requests)

\* C16 amended: such a second run skips every file and writes nothing; it
\* issues no GET request unless no_head_request is passed to download(), in
\* which case it issues exactly one GET per file and no HEAD.
C16_SecondRunSkipsAll ==
  (AfterCompleteRun /\ Settled /\ ServerUnchanged)
    => /\ decision = "skip" /\ Untouched
       /\ local0 = Local(TRUE, TRUE, remote[target])
       /\ reqs = (IF cfg.no_head_request THEN <<"GET">> ELSE <<"HEAD">>)

\* C16 witness: the second run has skipped the last file on its probe.
C16_Witness ==
  /\ AfterCompleteRun /\ Settled /\ ServerUnchanged
  /\ pc = "done" /\ decision = "skip" /\ reqs = <<"HEAD">>
  /\ target = <<3, 1>> /\ passed = <<1, 3>>

\* An earlier run was cut while writing the current file, which still has
\* fewer bytes than the server's body.
LeftPartiallyWritten ==
  /\ \E i \in 1..Len(finished) : finished[i].partial = target
  /\ Existed /\ local0.size < remote[target]

\* The server declares the body's length for the current file, on the HEAD
\* probe or on the GET response.
DeclaresLength ==
  \/ HeadHasSize /\ server.head.cl = <<remote[target]>>
  \/ server.get.st = "ok" /\ server.get.cl = <<remote[target]>>

\* C17: a file left partially written by a cut transfer is never skipped by a
\* later run whose server declares the body's length on HEAD or GET: that run
\* issues a GET for it and, outside dry-run, rewrites it from the start, so
\* that a run that finishes without error leaves the file with that length.
C17_PartialFileIsFetchedAgain ==
  (LeftPartiallyWritten /\ Settled /\ DeclaresLength)
    => /\ decision # "skip"
       /\ "GET" \in Requests
       /\ (pc # "error" /\ ~cfg.dry_run) => Rewritten

====
